---- MODULE Spec2Model ----
(***************************************************************************)
(* Relay engine of src/test_server/server.py: the six reconnecting phone   *)
(* tasks (connect_phone_endpoint for the five ENDPOINTS and                *)
(* connect_phone_control), the browser handlers (ws_handler), the fan-out  *)
(* (broadcast_to_browsers, broadcast_status) and the command path          *)
(* (handle_browser_message, send_control).                                 *)
(*                                                                         *)
(* The program is single-threaded asyncio: a coroutine runs until an await *)
(* that suspends it. One action of this module is one such run, so the     *)
(* interleavings of the actions are the schedules of the event loop.       *)
(* Durations are in units of 1/10000 s, which makes the float backoff      *)
(* values of the program (5, 7.5, 11.25, ...) integers here.               *)
(***************************************************************************)
EXTENDS Integers, Sequences, FiniteSets, TLC

\* ---------------------------------------------------------------- bounds
\* Spec: phone tasks that run, connection attempts of all tasks together,
\* browser connections accepted, upstream messages, inbound browser messages
MaxActive == 2
MaxAttempts == 2
MaxClients == 1
MaxData == 1
MaxInbound == 1
\* SpecBackoff
BackoffAttempts == 7
BackoffClients == 1
BackoffData == 1
\* SpecHub
HubAttempts == 1
HubClients == 2
HubData == 1
\* SpecStatus: StatusQuiet other tasks at most are connected from the start
StatusAttempts == 2
StatusClients == 1
StatusData == 1
StatusQuiet == 1
\* SpecRelay: RelayActive tasks run, each connected or not at the start
RelayActive == 2
RelayAttempts == 1
RelayClients == 1
RelayData == 2
\* SpecSnap: SnapActive tasks run, each connected or not at the start
SnapActive == 2
SnapAttempts == 1
SnapClients == 2
\* SpecNoise
NoiseAttempts == 1
NoiseClients == 1
NoiseData == 2
\* SpecCmd
CmdAttempts == 1
CmdClients == 1
CmdInbound == 2
\* SpecDecode: the header values minVal and maxVal of a flir frame, the bytes and
\* the length of its body; the records of a lidar buffer
FlirMaxVal == 4
FlirMaxByte == 3
FlirMaxBody == 4
LidarMaxRecords == 2

\* ------------------------------------------------------- program constants
ENDPOINTS == {"arduino", "lidar", "camera", "flir", "imu"}
Names == ENDPOINTS \cup {"control"}

Secs(n) == n * 10000
BackoffFloor == Secs(5)
BackoffCap == Secs(30)

Min(a, b) == IF a <= b THEN a ELSE b

\* json.dumps: the text whose parse is v
Dumps(v) == <<"json", v>>

VARIABLES
  pc,               \* phone task -> where it is suspended
  backoff,          \* phone task -> its local variable backoff
  phone_connected,  \* the dict phone_connected, read with .get(ep, False)
  control_ws,       \* the global control_ws: "None" or "ws"
  ctlOpen,          \* the control connection is open at the transport level
  browser_clients,  \* the set browser_clients
  bret,             \* phone task -> call site of its broadcast pass in progress
  bmsg,             \* phone task -> message of its pass in progress (<<>> if none)
  pos,              \* phone task -> table position of its set iterator
  used,             \* phone task -> size of the set when the iterator was made
  stale,            \* phone task -> its local variable stale
  hpc,              \* client -> where its ws_handler is
  closed,           \* client -> its transport is closed (a send to it raises)
  upstream,         \* texts sent on the control link, in order
  \* history variables
  waits,            \* phone task -> durations slept since its last success
  prevFails,        \* phone task -> failures that preceded its last success
  got,              \* phone task -> clients that received the pass in progress
  atStart,          \* phone task -> browser_clients when the pass began
  first,            \* client -> the first message it received (<<>> if none yet)
  dataLog,          \* client -> endpoint -> numbers of the envelopes of that
                    \* endpoint the client received, in the order it got them
  lastStatus,       \* client -> the last status message it received (<<>> if none)
  ups,              \* the upstream messages received so far, as inputs of Recv
  dropped,          \* ids of commands that met no live control link
  lastIn,           \* the inbound browser message handled last
  nIn, nData, nAttempts,
  \* handle_phone_binary taken alone
  dep,              \* the endpoint of the buffer ("none" when there is no buffer)
  frame,            \* the bytes of the buffer
  dpc,              \* "idle", "pending" (not yet decoded) or "done"
  decoded,          \* <<>> or the one message handle_phone_binary broadcasts
  lim               \* the limits of the run and the histories it keeps, in
                    \* lim.hist (never changes)

vars == <<pc, backoff, phone_connected, control_ws, ctlOpen, browser_clients,
          bret, bmsg, pos, used, stale, hpc, closed, upstream,
          waits, prevFails, got, atStart, first, dataLog, lastStatus, ups,
          dropped, lastIn,
          nIn, nData, nAttempts, dep, frame, dpc, decoded, lim>>

Clients == 1..lim.clients

\* ------------------------------------------------------------ messages

\* {ep: phone_connected.get(ep, False) for ep in ENDPOINTS + ["control"]}
Snapshot(conn) == [ep \in ENDPOINTS \cup {"control"} |-> conn[ep]]

\* mutant of StatusEnvelope: the snapshot leaves out control
StatusEnvelopeNoControl(conn) ==
  Dumps([type |-> "status", connections |-> [ep \in ENDPOINTS |-> conn[ep]]])

\* broadcast_status: the status envelope
StatusEnvelope(conn) == Dumps([type |-> "status", connections |-> Snapshot(conn)])

\* mutant of HandlerStatus: the snapshot of an empty phone_connected
HandlerStatusBlank(conn) ==
  Dumps([type |-> "status", connections |-> Snapshot([ep \in Names |-> FALSE])])

\* ws_handler: the status message sent to a new client
HandlerStatus(conn) == Dumps([type |-> "status", connections |-> Snapshot(conn)])

\* mutant of DataEnvelope: every envelope carries the first message
DataEnvelopeFirst(ep, n) == Dumps([type |-> ep, data |-> 1])

\* handle_phone_text / handle_phone_binary: the envelope of upstream message n
DataEnvelope(ep, n) == Dumps([type |-> ep, data |-> n])

\* ---------------------------------------------------------------- Init

\* The relay with the tasks of l.active created and the tasks of up connected and
\* waiting for a message that does not come during the run (they reached that
\* state with no browser connected); every other task is in its start-up delay.
RelayInit(l, up) ==
  /\ lim = l
  /\ pc = [t \in Names |-> IF t \in up THEN "recv" ELSE "init"]
  /\ backoff = [t \in Names |-> BackoffFloor]
  /\ phone_connected = [t \in Names |-> t \in up]
  /\ control_ws = IF "control" \in up THEN "ws" ELSE "None"
  /\ ctlOpen = ("control" \in up)
  /\ browser_clients = {}
  /\ bret = [t \in Names |-> "none"]
  /\ bmsg = [t \in Names |-> <<>>]
  /\ pos = [t \in Names |-> 0]
  /\ used = [t \in Names |-> 0]
  /\ stale = [t \in Names |-> {}]
  /\ hpc = [c \in 1..l.clients |-> "none"]
  /\ closed = [c \in 1..l.clients |-> FALSE]
  /\ upstream = <<>>
  /\ waits = [t \in Names |-> <<>>]
  /\ prevFails = [t \in Names |-> 0]
  /\ got = [t \in Names |-> {}]
  /\ atStart = [t \in Names |-> {}]
  /\ first = [c \in 1..l.clients |-> <<>>]
  /\ dataLog = [c \in 1..l.clients |-> [ep \in ENDPOINTS |-> <<>>]]
  /\ lastStatus = [c \in 1..l.clients |-> <<>>]
  /\ ups = <<>>
  /\ dropped = {}
  /\ lastIn = [c |-> 0, m |-> [shape |-> "text"]]
  /\ nIn = 0
  /\ nData = 0
  /\ nAttempts = 0

\* The relay as RelayInit gives it, and no buffer to decode.
InitWith(l, up) ==
  /\ RelayInit(l, up)
  /\ dep = "none"
  /\ frame = <<>>
  /\ dpc = "idle"
  /\ decoded = <<>>

Init ==
  \E S \in SUBSET Names :
    /\ Cardinality(S) = MaxActive
    /\ InitWith([active |-> S, attempts |-> MaxAttempts, clients |-> MaxClients,
                 data |-> MaxData, inbound |-> MaxInbound, hist |-> {}], {})

InitBackoff ==
  \E f \in Names :
    InitWith([active |-> {f}, attempts |-> BackoffAttempts,
              clients |-> BackoffClients, data |-> BackoffData, inbound |-> 0, hist |-> {}], {})

InitHub ==
  \E f \in Names :
    InitWith([active |-> {f}, attempts |-> HubAttempts, clients |-> HubClients,
              data |-> HubData, inbound |-> 0, hist |-> {}], {})

InitStatus ==
  \E f \in Names : \E up \in SUBSET (Names \ {f}) :
    /\ Cardinality(up) <= StatusQuiet
    /\ InitWith([active |-> {f}, attempts |-> StatusAttempts,
                 clients |-> StatusClients, data |-> StatusData, inbound |-> 0, hist |-> {}],
                up)

\* the tasks that may run in SpecRelay and SpecSnap
RelayTasks == {"arduino", "flir", "control"}

InitRelay ==
  \E S \in SUBSET RelayTasks : \E up \in SUBSET S :
    /\ Cardinality(S) = RelayActive
    /\ InitWith([active |-> S, attempts |-> RelayAttempts,
                 clients |-> RelayClients, data |-> RelayData, inbound |-> 0,
                 hist |-> {"data"}], up)

InitSnap ==
  \E S \in SUBSET RelayTasks : \E up \in SUBSET S :
    /\ Cardinality(S) = SnapActive
    /\ InitWith([active |-> S, attempts |-> SnapAttempts,
                 clients |-> SnapClients, data |-> 0, inbound |-> 0,
                 hist |-> {"status"}], up)

InitNoise ==
  \E f \in ENDPOINTS :
    InitWith([active |-> {f}, attempts |-> NoiseAttempts,
              clients |-> NoiseClients, data |-> NoiseData, inbound |-> 0,
              hist |-> {"ups"}], {})

InitCmd ==
  InitWith([active |-> {"control"}, attempts |-> CmdAttempts,
            clients |-> CmdClients, data |-> 0, inbound |-> CmdInbound, hist |-> {}], {})

\* ------------------------------------------------- broadcast_to_browsers

\* The pass of task t is over: its iteration state is dropped.
EndPass(t) ==
  /\ bret' = [bret EXCEPT ![t] = "none"]
  /\ bmsg' = [bmsg EXCEPT ![t] = <<>>]
  /\ pos' = [pos EXCEPT ![t] = 0]
  /\ used' = [used EXCEPT ![t] = 0]
  /\ stale' = [stale EXCEPT ![t] = {}]
  /\ got' = [got EXCEPT ![t] = {}]
  /\ atStart' = [atStart EXCEPT ![t] = {}]

\* broadcast_to_browsers returned to its call site: "up" is the broadcast_status
\* after a successful connect and "data" a handler inside the message loop, both
\* followed by the next receive; "down" is the broadcast_status after the try
\* block, followed by asyncio.sleep(backoff).
Return(t, ret, w) ==
  IF ret = "down"
    THEN /\ pc' = [pc EXCEPT ![t] = "sleep"]
         /\ waits' = [w EXCEPT ![t] = Append(w[t], backoff[t])]
    ELSE /\ pc' = [pc EXCEPT ![t] = "recv"]
         /\ waits' = w

\* Client c is handed the message msg (send_str has written it out).
Deliver(c, msg) ==
  /\ first' = [first EXCEPT ![c] = IF first[c] = <<>> THEN <<msg>> ELSE first[c]]
  /\ lastStatus' = IF "status" \in lim.hist /\ msg[2].type = "status"
                     THEN [lastStatus EXCEPT ![c] = msg] ELSE lastStatus
  /\ dataLog' = IF "data" \in lim.hist /\ msg[2].type \in ENDPOINTS
                   THEN [dataLog EXCEPT ![c][msg[2].type] = Append(@, msg[2].data)]
                   ELSE dataLog

\* No client is handed anything.
NoDelivery == UNCHANGED <<first, dataLog, lastStatus>>

\* browser_clients.difference_update(stale)
Purge(clients, st) == clients \ st

\* The for loop over browser_clients from table position p on, up to the first
\* send_str that goes through (where the task may be suspended) or to the end of
\* the set. A send_str to a closed client raises at once and the client is added
\* to stale; after the loop the stale clients are purged.
Loop(t, p, st, g, msg, ret, u, as, w) ==
  LET live == {c \in browser_clients : c > p /\ ~closed[c]}
  IN IF live = {}
       THEN /\ browser_clients' =
                 Purge(browser_clients, st \cup {c \in browser_clients : c > p})
            /\ EndPass(t)
            /\ Return(t, ret, w)
            /\ NoDelivery
       ELSE LET c == CHOOSE x \in live : \A y \in live : x <= y
            IN /\ browser_clients' = browser_clients
               /\ bret' = [bret EXCEPT ![t] = ret]
               /\ bmsg' = [bmsg EXCEPT ![t] = msg]
               /\ pos' = [pos EXCEPT ![t] = c]
               /\ used' = [used EXCEPT ![t] = u]
               /\ stale' = [stale EXCEPT ![t] =
                              st \cup {d \in browser_clients : d > p /\ d < c}]
               /\ got' = [got EXCEPT ![t] = g \cup {c}]
               /\ atStart' = [atStart EXCEPT ![t] = as]
               /\ Deliver(c, msg)
               /\ pc' = [pc EXCEPT ![t] = "bcast"]
               /\ waits' = w

\* A call of broadcast_to_browsers(msg) by task t from call site ret.
Broadcast(t, msg, ret, w) ==
  IF browser_clients = {}
    THEN /\ browser_clients' = browser_clients
         /\ EndPass(t)
         /\ Return(t, ret, w)
         /\ NoDelivery
    ELSE Loop(t, 0, {}, {}, msg, ret, Cardinality(browser_clients),
              browser_clients, w)

\* The set iterator finds the set changed ("RuntimeError: Set changed size
\* during iteration"): it compares the size of the set with the size it had
\* when the iterator was made.
SetChanged(t) == Cardinality(browser_clients) # used[t]

\* The RuntimeError leaves the pass. Inside the try block it is caught by
\* "except Exception", after the connection's context manager has closed the
\* link; from the broadcast_status that follows the try block nothing catches
\* it and the task ends.
Raise(t) ==
  /\ pc' = [pc EXCEPT ![t] = IF bret[t] = "down" THEN "dead" ELSE "closing"]
  /\ ctlOpen' = IF t = "control" THEN FALSE ELSE ctlOpen
  /\ EndPass(t)
  /\ NoDelivery
  /\ UNCHANGED <<browser_clients, waits>>

\* Task t is resumed inside its pass. late: the client it was sending to went
\* away meanwhile and the suspended send_str raises, which adds that client to
\* stale. Then the for statement asks the set iterator for the next client.
BroadcastResume(t, late) ==
  /\ t \in lim.active
  /\ pc[t] = "bcast"
  /\ late => closed[pos[t]]
  /\ IF SetChanged(t)
       THEN Raise(t)
       ELSE /\ Loop(t, pos[t], IF late THEN stale[t] \cup {pos[t]} ELSE stale[t],
                    got[t], bmsg[t], bret[t], used[t], atStart[t], waits)
            /\ UNCHANGED ctlOpen
  /\ UNCHANGED <<backoff, phone_connected, control_ws, hpc, closed, upstream,
                  prevFails, ups, dropped, lastIn, nIn, nData, nAttempts, dep,
                  frame, dpc, decoded, lim>>

\* ------------------------------- connect_phone_endpoint / connect_phone_control

\* mutant of NextBackoff: the factor is 2
NextBackoffDoubling(b) == Min(b * 2, BackoffCap)

\* backoff = min(backoff * 1.5, 30)
NextBackoff(b) == Min((b * 3) \div 2, BackoffCap)

\* mutant of BackoffOnSuccess: no reset
BackoffKept(b) == b

\* backoff = 5  # reset on success
BackoffOnSuccess(b) == BackoffFloor

\* The start-up delay of task t is over: it goes on to connect.
Start(t) ==
  /\ t \in lim.active
  /\ pc[t] = "init"
  /\ pc' = [pc EXCEPT ![t] = "connect"]
  /\ UNCHANGED <<backoff, phone_connected, control_ws, ctlOpen, browser_clients,
                  bret, bmsg, pos, used, stale, hpc, closed, upstream, waits,
                  prevFails, got, atStart, first, dataLog, lastStatus, ups,
                  dropped, lastIn, nIn, nData, nAttempts, dep, frame, dpc,
                  decoded, lim>>

\* websockets.connect succeeded.
ConnectOk(t) ==
  /\ t \in lim.active
  /\ pc[t] = "connect"
  /\ nAttempts < lim.attempts
  /\ nAttempts' = nAttempts + 1
  /\ control_ws' = IF t = "control" THEN "ws" ELSE control_ws
  /\ ctlOpen' = IF t = "control" THEN TRUE ELSE ctlOpen
  /\ phone_connected' = [phone_connected EXCEPT ![t] = TRUE]
  /\ backoff' = [backoff EXCEPT ![t] = BackoffOnSuccess(backoff[t])]
  /\ prevFails' = [prevFails EXCEPT ![t] = Len(waits[t])]
  /\ Broadcast(t, StatusEnvelope(phone_connected'), "up",
               [waits EXCEPT ![t] = <<>>])
  /\ UNCHANGED <<hpc, closed, upstream, ups, dropped, lastIn, nIn, nData, dep,
                  frame, dpc, decoded, lim>>

\* mutant of Disconnected: the control handle is not cleared
DisconnectedKeepsHandle(t) ==
  /\ control_ws' = control_ws
  /\ phone_connected' = [phone_connected EXCEPT ![t] = FALSE]
  /\ Broadcast(t, StatusEnvelope(phone_connected'), "down", waits)

\* mutant of Disconnected: every endpoint is set to disconnected
DisconnectedAll(t) ==
  /\ control_ws' = IF t = "control" THEN "None" ELSE control_ws
  /\ phone_connected' = [ep \in Names |-> FALSE]
  /\ Broadcast(t, StatusEnvelope(phone_connected'), "down", waits)

\* What follows the try block: the state is set to disconnected and the status
\* is broadcast; then the task sleeps.
Disconnected(t) ==
  /\ control_ws' = IF t = "control" THEN "None" ELSE control_ws
  /\ phone_connected' = [phone_connected EXCEPT ![t] = FALSE]
  /\ Broadcast(t, StatusEnvelope(phone_connected'), "down", waits)

\* websockets.connect raised.
ConnectFail(t) ==
  /\ t \in lim.active
  /\ pc[t] = "connect"
  /\ nAttempts < lim.attempts
  /\ nAttempts' = nAttempts + 1
  /\ Disconnected(t)
  /\ UNCHANGED <<backoff, ctlOpen, hpc, closed, upstream, prevFails, ups,
                  dropped, lastIn, nIn, nData, dep, frame, dpc, decoded, lim>>

\* The link is lost while the task waits for the next message: the exception
\* leaves the "async with" block, whose exit closes the connection.
LinkLost(t) ==
  /\ t \in lim.active
  /\ pc[t] = "recv"
  /\ pc' = [pc EXCEPT ![t] = "closing"]
  /\ ctlOpen' = IF t = "control" THEN FALSE ELSE ctlOpen
  /\ UNCHANGED <<backoff, phone_connected, control_ws, browser_clients, bret,
                  bmsg, pos, used, stale, hpc, closed, upstream, waits,
                  prevFails, got, atStart, first, dataLog, lastStatus, ups,
                  dropped, lastIn, nIn, nData, nAttempts, dep, frame, dpc,
                  decoded, lim>>

\* The connection's context manager has finished closing the link.
CloseDone(t) ==
  /\ t \in lim.active
  /\ pc[t] = "closing"
  /\ Disconnected(t)
  /\ UNCHANGED <<backoff, ctlOpen, hpc, closed, upstream, prevFails, ups,
                  dropped, lastIn, nIn, nData, nAttempts, dep, frame, dpc,
                  decoded, lim>>

\* asyncio.sleep(backoff) is over.
Wake(t) ==
  /\ t \in lim.active
  /\ pc[t] = "sleep"
  /\ backoff' = [backoff EXCEPT ![t] = NextBackoff(backoff[t])]
  /\ pc' = [pc EXCEPT ![t] = "connect"]
  /\ UNCHANGED <<phone_connected, control_ws, ctlOpen, browser_clients, bret,
                  bmsg, pos, used, stale, hpc, closed, upstream, waits,
                  prevFails, got, atStart, first, dataLog, lastStatus, ups,
                  dropped, lastIn, nIn, nData, nAttempts, dep, frame, dpc,
                  decoded, lim>>

\* The control connection closes at the transport level before the control task
\* has been resumed to see it.
ControlBreak ==
  /\ "control" \in lim.active
  /\ control_ws = "ws"
  /\ ctlOpen
  /\ pc["control"] \in {"recv", "bcast"}
  /\ ctlOpen' = FALSE
  /\ UNCHANGED <<pc, backoff, phone_connected, control_ws, browser_clients, bret,
                  bmsg, pos, used, stale, hpc, closed, upstream, waits,
                  prevFails, got, atStart, first, dataLog, lastStatus, ups,
                  dropped, lastIn, nIn, nData, nAttempts, dep, frame, dpc,
                  decoded, lim>>

\* mutant of Emits: the text is not parsed and the frame length not looked at
EmitsUnchecked(ep, kind, ok) ==
  IF kind = "text"
    THEN ep \in {"arduino", "imu"}
    ELSE ep \in {"camera", "flir", "lidar"}

\* handle_phone_text / handle_phone_binary: whether an upstream message of the
\* given kind gives an envelope. ok: the text parses as JSON, the flir frame has
\* at least 12 bytes, the lidar buffer holds a record that qualifies.
Emits(ep, kind, ok) ==
  IF kind = "text"
    THEN ep \in {"arduino", "imu"} /\ ok
    ELSE \/ ep = "camera"
         \/ ep \in {"flir", "lidar"} /\ ok

\* One message arrives on endpoint t and is handled.
Recv(t, kind, ok) ==
  /\ t \in lim.active
  /\ t \in ENDPOINTS
  /\ pc[t] = "recv"
  /\ nData < lim.data
  /\ nData' = nData + 1
  /\ ups' = IF "ups" \in lim.hist
               THEN Append(ups, [ep |-> t, kind |-> kind, ok |-> ok]) ELSE ups
  /\ IF Emits(t, kind, ok)
       THEN Broadcast(t, DataEnvelope(t, nData + 1), "data", waits)
       ELSE UNCHANGED <<pc, browser_clients, bret, bmsg, pos, used, stale, got,
                        atStart, first, dataLog, lastStatus, waits>>
  /\ UNCHANGED <<backoff, phone_connected, control_ws, ctlOpen, hpc, closed,
                  upstream, prevFails, dropped, lastIn, nIn, nAttempts, dep,
                  frame, dpc, decoded, lim>>

\* ------------------------------------------------------------ ws_handler

\* A browser connects: ws_handler adds the client to browser_clients and sends it
\* the current status, with no suspension in between. gone: the browser went away
\* during the handshake, so that first send_str raises; it is outside the
\* try/finally, the handler ends and the client stays in the set.
Join(c, gone) ==
  /\ hpc[c] = "none"
  /\ browser_clients' = browser_clients \cup {c}
  /\ closed' = [closed EXCEPT ![c] = gone]
  /\ IF gone
       THEN /\ hpc' = [hpc EXCEPT ![c] = "crashed"]
            /\ NoDelivery
       ELSE /\ hpc' = [hpc EXCEPT ![c] = "loop"]
            /\ Deliver(c, HandlerStatus(phone_connected))
  /\ UNCHANGED <<pc, backoff, phone_connected, control_ws, ctlOpen, bret, bmsg,
                  pos, used, stale, upstream, waits, prevFails, got, atStart,
                  ups, dropped, lastIn, nIn, nData, nAttempts, dep, frame, dpc,
                  decoded, lim>>

\* The browser of client c goes away.
ClientClose(c) ==
  /\ hpc[c] = "loop"
  /\ ~closed[c]
  /\ closed' = [closed EXCEPT ![c] = TRUE]
  /\ UNCHANGED <<pc, backoff, phone_connected, control_ws, ctlOpen,
                  browser_clients, bret, bmsg, pos, used, stale, hpc, upstream,
                  waits, prevFails, got, atStart, first, dataLog, lastStatus,
                  ups, dropped, lastIn, nIn, nData, nAttempts, dep, frame, dpc,
                  decoded, lim>>

\* The handler of c is resumed with the close: the loop ends and the finally
\* clause discards the client.
HandlerExit(c) ==
  /\ hpc[c] = "loop"
  /\ closed[c]
  /\ hpc' = [hpc EXCEPT ![c] = "ended"]
  /\ browser_clients' = browser_clients \ {c}
  /\ UNCHANGED <<pc, backoff, phone_connected, control_ws, ctlOpen, bret, bmsg,
                  pos, used, stale, closed, upstream, waits, prevFails, got,
                  atStart, first, dataLog, lastStatus, ups, dropped, lastIn, nIn,
                  nData, nAttempts, dep, frame, dpc, decoded, lim>>

\* ------------------------------------- handle_browser_message / send_control

\* Inbound texts: not JSON; JSON that is no object; objects by their fields.
InMsgs ==
  { [shape |-> "text"],
    [shape |-> "value"],
    [shape |-> "object", fields |-> [type |-> "motor", left |-> 1, right |-> 2]],
    [shape |-> "object", fields |-> [type |-> "motor", right |-> 2]],
    [shape |-> "object", fields |-> [type |-> "stop"]],
    [shape |-> "object", fields |-> [type |-> "control", payload |-> [cmd |-> "x"]]],
    [shape |-> "object", fields |-> [type |-> "control"]],
    [shape |-> "object", fields |-> [type |-> "other"]],
    [shape |-> "object", fields |-> [left |-> 1]] }

\* dict.get(k, default)
Get(d, k, default) == IF k \in DOMAIN d THEN d[k] ELSE default

\* msg.get("type")
TypeOf(m) == Get(m.fields, "type", "None")

\* mutant of HandlerRaises: a failed control_ws.send is not caught
HandlerRaisesOnSendFailure(m) ==
  \/ m.shape = "value"
  \/ /\ m.shape = "object"
     /\ TypeOf(m) \in {"motor", "stop", "control"}
     /\ control_ws # "None"
     /\ ~ctlOpen

\* handle_browser_message raises: msg.get on a parsed value that is no dict
HandlerRaises(m) == m.shape = "value"

\* mutant of Commands: left and right are swapped, stop has the motor opcode
CommandsSwapped(m) ==
  IF m.shape # "object" THEN <<>>
  ELSE IF TypeOf(m) = "motor"
    THEN << [target |-> "arduino",
             cmd |-> Dumps([N |-> 7, D1 |-> Get(m.fields, "right", 0),
                            D2 |-> Get(m.fields, "left", 0)])] >>
  ELSE IF TypeOf(m) = "stop"
    THEN << [target |-> "arduino", cmd |-> Dumps([N |-> 7])] >>
  ELSE IF TypeOf(m) = "control"
    THEN << Get(m.fields, "payload", <<>>) >>
  ELSE <<>>

\* The payloads handle_browser_message passes to send_control, in order.
Commands(m) ==
  IF m.shape # "object" THEN <<>>
  ELSE IF TypeOf(m) = "motor"
    THEN << [target |-> "arduino",
             cmd |-> Dumps([N |-> 7, D1 |-> Get(m.fields, "left", 0),
                            D2 |-> Get(m.fields, "right", 0)])] >>
  ELSE IF TypeOf(m) = "stop"
    THEN << [target |-> "arduino", cmd |-> Dumps([N |-> 6])] >>
  ELSE IF TypeOf(m) = "control"
    THEN << Get(m.fields, "payload", <<>>) >>
  ELSE <<>>

\* send_control goes on to control_ws.send
SendAttempted == control_ws # "None"

\* mutant of SendDelivers: the command goes out whatever the state of the link
SendAlways == TRUE

\* control_ws.send goes through
SendDelivers == SendAttempted /\ ctlOpen

\* The handler of c receives the text m and runs handle_browser_message on it.
Inbound(c, m) ==
  /\ hpc[c] = "loop"
  /\ ~closed[c]
  /\ nIn < lim.inbound
  /\ nIn' = nIn + 1
  /\ lastIn' = [c |-> c, m |-> m]
  /\ IF HandlerRaises(m)
       THEN /\ hpc' = [hpc EXCEPT ![c] = "failed"]
            /\ browser_clients' = browser_clients \ {c}
       ELSE UNCHANGED <<hpc, browser_clients>>
  /\ IF Commands(m) # <<>> /\ SendDelivers
       THEN upstream' = Append(upstream,
                               [id |-> nIn + 1, text |-> Dumps(Commands(m)[1])])
       ELSE upstream' = upstream
  /\ dropped' = IF Commands(m) # <<>> /\ ~SendDelivers
                  THEN dropped \cup {nIn + 1} ELSE dropped
  /\ UNCHANGED <<pc, backoff, phone_connected, control_ws, ctlOpen, bret, bmsg,
                  pos, used, stale, closed, waits, prevFails, got, atStart,
                  first, dataLog, lastStatus, ups, nData, nAttempts, dep, frame,
                  dpc, decoded, lim>>

\* ----------------------------------------------------- handle_phone_binary

Max(a, b) == IF a >= b THEN a ELSE b

\* struct.unpack_from("<H", d, i)[0]
U16(d, i) == d[i + 1] + 256 * d[i + 2]

\* an "I" field of struct.unpack_from("<HHII", d, 0), at offset i
U32(d, i) ==
  d[i + 1] + 256 * d[i + 2] + 65536 * d[i + 3] + 16777216 * d[i + 4]

\* int(a / b) for b > 0: the quotient cut off towards zero
IntDiv(a, b) == IF a >= 0 THEN a \div b ELSE -((-a) \div b)

\* val_range = max(max_val - min_val, 1)
ValRange(min_val, max_val) == Max(max_val - min_val, 1)

\* normalized = int((raw - min_val) * 255 / val_range)
Normalized(raw, min_val, val_range) == IntDiv((raw - min_val) * 255, val_range)

\* mutant of Clamp: no ceiling
ClampFloorOnly(n) == Max(0, n)

\* max(0, min(255, normalized))
Clamp(n) == Max(0, Min(255, n))

\* the list pixels: one pixel for i in range(0, len(pixel_data) - 1, 2)
FlirPixels(pixel_data, min_val, val_range) ==
  [k \in 1..(Len(pixel_data) \div 2) |->
     Clamp(Normalized(U16(pixel_data, 2 * (k - 1)), min_val, val_range))]

\* The flir branch: the message broadcast for the frame data, if any.
FlirEnvelope(data) ==
  IF Len(data) >= 12
    THEN LET min_val == U32(data, 4)
             max_val == U32(data, 8)
         IN << Dumps([type |-> "flir",
                      width |-> U16(data, 0),
                      height |-> U16(data, 2),
                      minVal |-> min_val,
                      maxVal |-> max_val,
                      pixels |-> FlirPixels(SubSeq(data, 13, Len(data)), min_val,
                                            ValRange(min_val, max_val))]) >>
    ELSE <<>>

\* round(num / den, 1) in tenths, for num / den a float that is exact: the
\* nearest tenth, a tie going to the even digit
RoundTenths(num, den) ==
  LET q == (num * 10) \div den
      r == (num * 10) % den
  IN IF 2 * r < den THEN q
     ELSE IF 2 * r > den THEN q + 1
     ELSE IF q % 2 = 0 THEN q ELSE q + 1

\* mutant of Quality: one bit too few is shifted out
QualityShiftedByOne(b0) == b0 \div 2

\* quality = b0 >> 2
Quality(b0) == b0 \div 4

\* The point of the record b0..b4, a and d in tenths: the angle is
\* ((b1 >> 1) | (b2 << 7)) / 64.0 and the distance (b3 | (b4 << 8)) / 4.0.
LidarPoint(b0, b1, b2, b3, b4) ==
  [a |-> RoundTenths((b1 \div 2) + 128 * b2, 64),
   d |-> RoundTenths(b3 + 256 * b4, 4),
   q |-> Quality(b0)]

\* The list points built by the loop for i in range(0, len(data) - 4, 5), from
\* offset i on.
RECURSIVE LidarPointsFrom(_, _)
LidarPointsFrom(data, i) ==
  IF i >= Len(data) - 4
    THEN <<>>
    ELSE LET b0 == data[i + 1]
             b1 == data[i + 2]
             b2 == data[i + 3]
             b3 == data[i + 4]
             b4 == data[i + 5]
             here == IF Quality(b0) = 0 THEN <<>>
                     ELSE IF b3 + 256 * b4 > 0
                       THEN << LidarPoint(b0, b1, b2, b3, b4) >>
                     ELSE <<>>
         IN here \o LidarPointsFrom(data, i + 5)

\* The lidar branch: the message broadcast for the buffer data, if any.
LidarEnvelope(data) ==
  LET points == LidarPointsFrom(data, 0)
  IN IF points # <<>>
       THEN << Dumps([type |-> "lidar", points |-> points]) >>
       ELSE <<>>

\* handle_phone_binary(dep, frame) up to its broadcast.
HandlePhoneBinary ==
  /\ dpc = "pending"
  /\ dpc' = "done"
  /\ decoded' = IF dep = "flir" THEN FlirEnvelope(frame) ELSE LidarEnvelope(frame)
  /\ UNCHANGED <<pc, backoff, phone_connected, control_ws, ctlOpen,
                  browser_clients, bret, bmsg, pos, used, stale, hpc, closed,
                  upstream, waits, prevFails, got, atStart, first, dataLog,
                  lastStatus, ups, dropped, lastIn, nIn, nData, nAttempts, dep,
                  frame, lim>>

\* the bytes of the header width, height, minVal, maxVal ("<HHII")
FlirHeader(w, h, lo, hi) ==
  << w % 256, w \div 256, h % 256, h \div 256,
     lo % 256, (lo \div 256) % 256, (lo \div 65536) % 256, lo \div 16777216,
     hi % 256, (hi \div 256) % 256, (hi \div 65536) % 256, hi \div 16777216 >>

\* flir frames: a header with a body, or fewer than 12 bytes
FlirFrames ==
  { FlirHeader(2, 1, lo, hi) \o body :
      lo \in 0..FlirMaxVal, hi \in 0..FlirMaxVal,
      body \in UNION { [1..n -> 0..FlirMaxByte] : n \in 0..FlirMaxBody } }
  \cup { [i \in 1..n |-> 1] : n \in 0..11 }

\* lidar records by their bytes b0..b4
LidarRecords ==
  { <<b0, b1, b2, b3, b4>> :
      b0 \in {0, 3, 4}, b1 \in {0, 3}, b2 \in {0, 1}, b3 \in {0, 1}, b4 \in {0, 1} }

RECURSIVE Flatten(_)
Flatten(recs) == IF recs = <<>> THEN <<>> ELSE Head(recs) \o Flatten(Tail(recs))

\* lidar buffers: whole records followed by up to four more bytes
LidarBuffers ==
  { Flatten(recs) \o [i \in 1..r |-> 4] :
      recs \in UNION { [1..k -> LidarRecords] : k \in 0..LidarMaxRecords },
      r \in 0..4 }

InitDecode ==
  /\ RelayInit([active |-> {}, attempts |-> 0, clients |-> 0, data |-> 0,
                inbound |-> 0, hist |-> {}], {})
  /\ \/ dep = "flir" /\ frame \in FlirFrames
     \/ dep = "lidar" /\ frame \in LidarBuffers
  /\ dpc = "pending"
  /\ decoded = <<>>

\* ---------------------------------------------------------- specifications
PhoneStep ==
  \/ \E t \in Names : Start(t)
  \/ \E t \in Names : ConnectOk(t)
  \/ \E t \in Names : ConnectFail(t)
  \/ \E t \in Names : LinkLost(t)
  \/ \E t \in Names : CloseDone(t)
  \/ \E t \in Names : Wake(t)
  \/ \E t \in Names, late \in BOOLEAN : BroadcastResume(t, late)

DataStep ==
  \E t \in Names, kind \in {"text", "binary"}, ok \in BOOLEAN : Recv(t, kind, ok)

ClientStep ==
  \/ \E c \in Clients, gone \in BOOLEAN : Join(c, gone)
  \/ \E c \in Clients : ClientClose(c)
  \/ \E c \in Clients : HandlerExit(c)

InboundStep == \E c \in Clients, m \in InMsgs : Inbound(c, m)

\* every task, every handler
Next == PhoneStep \/ DataStep \/ ControlBreak \/ ClientStep \/ InboundStep

\* one endpoint or control task, the browsers joining and leaving
NextHub == PhoneStep \/ DataStep \/ ControlBreak \/ ClientStep

\* the tasks connecting and disconnecting, the browsers joining and leaving
NextLinks == PhoneStep \/ ControlBreak \/ ClientStep

\* one endpoint task, the browsers joining and leaving
NextEndpoint == PhoneStep \/ DataStep \/ ClientStep

\* the control task and the browsers with their commands
NextCmd == PhoneStep \/ ControlBreak \/ ClientStep \/ InboundStep

Spec == Init /\ [][Next]_vars

SpecBackoff == InitBackoff /\ [][NextHub]_vars

SpecHub == InitHub /\ [][NextHub]_vars

SpecStatus == InitStatus /\ [][NextHub]_vars

SpecRelay == InitRelay /\ [][NextHub]_vars

SpecSnap == InitSnap /\ [][NextLinks]_vars

SpecNoise == InitNoise /\ [][NextEndpoint]_vars

SpecDecode == InitDecode /\ [][HandlePhoneBinary]_vars

SpecCmd == InitCmd /\ [][NextCmd]_vars


\* ------------------------------------------------------------------ claims

\* The waits the specification lists for consecutive failures, in 1/10000 s:
\* 5, 7.5, 11.25, 16.875, 25, 30, 30, ...
ListedWait(i) ==
  IF i <= 7 THEN <<50000, 75000, 112500, 168750, 250000, 300000, 300000>>[i]
            ELSE 300000

\* The same with 1.5 * 16.875 = 25.3125 as the fifth wait.
ExactWait(i) ==
  IF i <= 7 THEN <<50000, 75000, 112500, 168750, 253125, 300000, 300000>>[i]
            ELSE 300000

\* C1 as stated: the waits of a task since its last success (or since it
\* started) are 5, 7.5, 11.25, 16.875, 25, 30, 30, ... in this order.
C1_ListedWaits ==
  \A t \in Names : \A i \in 1..Len(waits[t]) : waits[t][i] = ListedWait(i)

\* C1 amended: the waits of a task since its last success (or since it started)
\* are 5, 7.5, 11.25, 16.875, 25.3125, 30, 30, ... in this order.
C1_ExactWaits ==
  \A t \in Names : \A i \in 1..Len(waits[t]) : waits[t][i] = ExactWait(i)

\* Seven failures in a row: the ceiling has been slept twice.
C1_Witness == \E t \in Names : Len(waits[t]) = 7

\* C7: while an endpoint is connected its backoff is 5, and the first wait after
\* a success (as after the start) is 5, whatever the failures before it.
C7_ResetOnSuccess ==
  \A t \in Names :
    /\ phone_connected[t] => backoff[t] = 50000
    /\ waits[t] # <<>> => waits[t][1] = 50000

\* A success that came after three failures, then a link loss and its wait.
C7_Witness ==
  \E t \in Names : prevFails[t] >= 3 /\ Len(waits[t]) = 1 /\ pc[t] = "sleep"

\* C2: no phone task ever ends.
C2_NoTerminalState == \A t \in Names : pc[t] # "dead"

\* C3: while a pass of a task is part-way through browser_clients the set is not
\* modified, and the pass is not broken off.
C3_NoChangeDuringPass ==
  [][\A t \in Names :
       pc[t] = "bcast" =>
         /\ pc'[t] = "bcast" => browser_clients' = browser_clients
         /\ pc'[t] \in {"bcast", "recv", "sleep"}]_vars

\* The status message of a given connectivity, written out.
StatusOf(conn) ==
  <<"json", [type |-> "status", connections |-> [ep \in Names |-> conn[ep]]]>>

\* C4: the first message a client ever receives is sent in the step that
\* registers it, and it is the status of the connectivity of all six names at
\* that moment; a client whose handler goes on to its loop has received it.
C4_FirstIsStatus ==
  [][\A c \in Clients :
       /\ first'[c] # first[c] =>
            /\ c \notin browser_clients
            /\ c \in browser_clients'
            /\ first'[c] = <<StatusOf(phone_connected)>>
       /\ (c \notin browser_clients /\ c \in browser_clients' /\ hpc'[c] = "loop")
            => first'[c] # <<>>]_vars

\* A client registered while a pass of a connected task was part-way got the
\* status, which shows that task connected, and nothing of the pass.
C4_Witness ==
  \E c \in Clients, t \in Names :
    /\ pc[t] = "bcast"
    /\ c \in browser_clients \ atStart[t]
    /\ hpc[c] = "loop"
    /\ first[c] = <<StatusOf(phone_connected)>>
    /\ phone_connected[t]

\* C6 as stated: a pass of task t in which a send failed ends with the failing
\* clients out of the set, with every client that was registered when it began
\* and still is having received its message, and with t back at its call site,
\* its connectivity and backoff as they were.
C6_SendFailureLocal ==
  [][\A t \in Names :
       (pc[t] = "bcast" /\ stale[t] # {} /\ pc'[t] # "bcast") =>
         /\ stale[t] \cap browser_clients' = {}
         /\ (atStart[t] \cap browser_clients') \subseteq got[t]
         /\ pc'[t] = IF bret[t] = "down" THEN "sleep" ELSE "recv"
         /\ phone_connected'[t] = phone_connected[t]
         /\ backoff'[t] = backoff[t]]_vars

\* C8: a step that changes the connectivity of t goes on into the broadcast of
\* the status of all six names as they are after the change: unless no open
\* client is registered, the task is then inside that pass, not yet receiving
\* nor sleeping. And the status a task is broadcasting shows its own
\* connectivity as it is.
C8_StatusAfterChange ==
  [][\A t \in Names :
       /\ phone_connected'[t] # phone_connected[t] =>
            IF \A c \in browser_clients : closed[c]
              THEN pc'[t] \in {"recv", "sleep"} /\ bmsg'[t] = <<>>
              ELSE /\ pc'[t] = "bcast"
                   /\ bmsg'[t] = StatusOf(phone_connected')
                   /\ got'[t] # {}
       /\ (pc'[t] = "bcast" /\ bret'[t] \in {"up", "down"}) =>
            /\ DOMAIN bmsg'[t][2].connections = Names
            /\ bmsg'[t][2].connections[t] = phone_connected'[t]]_vars

\* A task broadcasts that it is disconnected, in a status that shows another
\* endpoint connected.
C8_Witness ==
  \E t \in Names, u \in Names :
    /\ u # t
    /\ pc[t] = "bcast"
    /\ bret[t] = "down"
    /\ bmsg[t] = StatusOf(phone_connected)
    /\ phone_connected[u]
    /\ \E c \in got[t] : hpc[c] = "loop"

\* motor, stop and control objects
IsCommand(m) ==
  /\ m.shape = "object"
  /\ "type" \in DOMAIN m.fields
  /\ m.fields.type \in {"motor", "stop", "control"}

\* the control link is there and open
LinkLive == control_ws = "ws" /\ ctlOpen

\* C5: a command handled while there is no live control link adds nothing to
\* what was sent upstream, leaves its handler in its loop and registered and
\* the control task where it was; and no command that met no live link is ever
\* among the texts sent upstream.
C5_DroppedNotSent ==
  [][/\ (nIn' # nIn /\ IsCommand(lastIn'.m) /\ ~LinkLive) =>
          /\ upstream' = upstream
          /\ hpc'[lastIn'.c] = "loop"
          /\ lastIn'.c \in browser_clients'
          /\ pc'["control"] = pc["control"]
     /\ \A i \in 1..Len(upstream') : upstream'[i].id \notin dropped']_vars

\* A command was dropped, and a later one went out on a live link.
C5_Witness ==
  /\ LinkLive
  /\ \E d \in dropped : \E i \in 1..Len(upstream) : upstream[i].id > d

\* C9 as stated: an inbound message that is no motor, stop or control object
\* sends nothing upstream and leaves its handler registered and in its loop.
C9_OthersIgnored ==
  [][(nIn' # nIn /\ ~IsCommand(lastIn'.m)) =>
        /\ upstream' = upstream
        /\ lastIn'.c \in browser_clients'
        /\ hpc'[lastIn'.c] = "loop"]_vars

\* left and right of a motor message
FieldOr0(m, k) == IF k \in DOMAIN m.fields THEN m.fields[k] ELSE 0

\* {"N":6} for stop, {"N":7,"D1":left,"D2":right} for motor
Opcode(m) ==
  IF m.fields.type = "stop"
    THEN [N |-> 6]
    ELSE [N |-> 7, D1 |-> FieldOr0(m, "left"), D2 |-> FieldOr0(m, "right")]

\* a stop or motor message is handled while the control link is live
StopOrMotor ==
  /\ nIn' # nIn
  /\ IsCommand(lastIn'.m)
  /\ lastIn'.m.fields.type \in {"stop", "motor"}
  /\ LinkLive

\* C10 as stated: a stop or motor message handled on a live control link sends
\* exactly one text upstream, the JSON of {"N":6} or {"N":7,"D1":left,"D2":right}.
C10_BarePayload ==
  [][StopOrMotor =>
       /\ Len(upstream') = Len(upstream) + 1
       /\ upstream'[Len(upstream')].text = <<"json", Opcode(lastIn'.m)>>]_vars

\* C10 amended: the one text sent is the JSON of {"target":"arduino","cmd":c},
\* c being the JSON text of {"N":6} or {"N":7,"D1":left,"D2":right}.
C10_WrappedPayload ==
  [][StopOrMotor =>
       /\ Len(upstream') = Len(upstream) + 1
       /\ upstream'[Len(upstream')].text =
            <<"json", [target |-> "arduino",
                       cmd |-> <<"json", Opcode(lastIn'.m)>>]>>]_vars

\* A stop and then a motor message went out on the live link.
C10_Witness ==
  /\ LinkLive
  /\ Len(upstream) = 2
  /\ upstream[1].text =
       <<"json", [target |-> "arduino", cmd |-> <<"json", [N |-> 6]>>]>>
  /\ upstream[2].text =
       <<"json", [target |-> "arduino",
                  cmd |-> <<"json", [N |-> 7, D1 |-> 1, D2 |-> 2]>>]>>

\* C11: every client has received the envelopes of each endpoint in the order
\* the endpoint received their messages (the numbers grow along its log, none
\* twice), one envelope for one message; and a client that an endpoint's pass
\* has reached holds the envelope of that pass as the last of that endpoint.
C11_InOrder ==
  \A c \in Clients : \A t \in ENDPOINTS :
    /\ \A i \in 1..Len(dataLog[c][t]) : \A j \in 1..Len(dataLog[c][t]) :
         i < j => dataLog[c][t][i] < dataLog[c][t][j]
    /\ (pc[t] = "bcast" /\ bret[t] = "data" /\ c \in got[t]) =>
         /\ dataLog[c][t] # <<>>
         /\ bmsg[t] = <<"json", [type |-> t,
                                 data |-> dataLog[c][t][Len(dataLog[c][t])]]>>

\* A client holds two envelopes of one endpoint while the pass of another task
\* that has reached it is part-way.
C11_Witness ==
  \E c \in Clients, t \in ENDPOINTS, u \in Names :
    /\ u # t
    /\ Len(dataLog[c][t]) = 2
    /\ hpc[c] = "loop"
    /\ pc[u] = "bcast"
    /\ c \in got[u]

\* a handle whose handler is over
Dead(c) == hpc[c] \in {"crashed", "ended", "failed"}

\* C12 as stated: when a pass ends, every dead handle it tried to send to (the
\* send failed and the pass noted it in stale) is out of browser_clients.
C12_DeadPurged ==
  [][\A t \in Names :
       (pc[t] = "bcast" /\ pc'[t] # "bcast") =>
         \A c \in stale[t] : Dead(c) => c \notin browser_clients']_vars

\* C13: a command handled while control_ws is set but its connection is broken
\* is dropped: nothing is added to what was sent upstream, and no dropped
\* command is among the texts sent later; its handler stays in its loop and
\* registered, the control task stays where it was, and the handle, the
\* connectivity and the backoff of control are as before.
C13_SendFailureAbsorbed ==
  [][(nIn' # nIn /\ IsCommand(lastIn'.m) /\ control_ws = "ws" /\ ~ctlOpen) =>
        /\ upstream' = upstream
        /\ nIn' \in dropped'
        /\ \A i \in 1..Len(upstream') : upstream'[i].id \notin dropped'
        /\ hpc'[lastIn'.c] = "loop"
        /\ lastIn'.c \in browser_clients'
        /\ pc'["control"] = pc["control"]
        /\ pc'["control"] # "dead"
        /\ control_ws' = control_ws
        /\ ctlOpen' = ctlOpen
        /\ phone_connected' = phone_connected
        /\ backoff' = backoff]_vars

\* A command went out on the link, the link broke, and the next command was
\* dropped with the handle still set and its sender still registered.
C13_Witness ==
  /\ control_ws = "ws"
  /\ ~ctlOpen
  /\ phone_connected["control"]
  /\ nIn \in dropped
  /\ IsCommand(lastIn.m)
  /\ Len(upstream) = 1
  /\ upstream[1].id < nIn
  /\ lastIn.c \in browser_clients
  /\ hpc[lastIn.c] = "loop"

\* an upstream message that does not parse: text on arduino or imu that is no
\* JSON, a flir frame of fewer than 12 bytes
Malformed(u) ==
  \/ u.kind = "text" /\ u.ep \in {"arduino", "imu"} /\ ~u.ok
  \/ u.kind = "binary" /\ u.ep = "flir" /\ ~u.ok

\* an upstream message that parses: JSON text on arduino or imu, a camera image,
\* a flir frame of at least 12 bytes
WellFormed(u) ==
  \/ u.kind = "text" /\ u.ep \in {"arduino", "imu"} /\ u.ok
  \/ u.kind = "binary" /\ u.ep = "camera"
  \/ u.kind = "binary" /\ u.ep = "flir" /\ u.ok

\* C14: the step that handles a malformed upstream message hands nothing to any
\* client and starts no pass, and leaves the endpoint connected, waiting for its
\* next message, with its backoff as it was; the step that handles a well-formed
\* one, the one after a malformed one included, starts the pass of its envelope
\* unless no open client is registered.
C14_NoiseDropped ==
  [][Len(ups') = Len(ups) + 1 =>
       LET u == ups'[Len(ups')]
           t == ups'[Len(ups')].ep
       IN /\ Malformed(u) =>
               /\ UNCHANGED <<pc, bret, bmsg, got, first, browser_clients,
                              phone_connected, backoff, waits>>
               /\ pc'[t] = "recv"
               /\ phone_connected'[t]
          /\ (WellFormed(u) /\ \E c \in browser_clients : ~closed[c]) =>
               /\ pc'[t] = "bcast"
               /\ bmsg'[t] = <<"json", [type |-> t, data |-> Len(ups')]>>
               /\ got'[t] # {}
               /\ phone_connected'[t]
               /\ backoff'[t] = backoff[t]]_vars

\* After a malformed message the next message of the same endpoint is being
\* broadcast.
C14_Witness ==
  \E t \in ENDPOINTS :
    /\ Len(ups) = 2
    /\ ups[1].ep = t
    /\ Malformed(ups[1])
    /\ ups[2].ep = t
    /\ WellFormed(ups[2])
    /\ pc[t] = "bcast"
    /\ bmsg[t] = <<"json", [type |-> t, data |-> 2]>>
    /\ \E c \in got[t] : hpc[c] = "loop"

\* ---- thermal frames and ranging buffers, read off the bytes of frame

\* minVal and maxVal of the header: little-endian 32-bit fields at offsets 4, 8
HeaderMin == frame[5] + 256 * frame[6] + 65536 * frame[7] + 16777216 * frame[8]
HeaderMax == frame[9] + 256 * frame[10] + 65536 * frame[11] + 16777216 * frame[12]

\* the samples of the body: little-endian 16-bit values from offset 12 on
Samples == (Len(frame) - 12) \div 2
Raw(k) == frame[12 + 2 * k - 1] + 256 * frame[12 + 2 * k]

\* the pixels of the message decoded from the frame
Pixels == decoded[1][2].pixels

\* a thermal frame of at least 12 bytes has been decoded
FlirDone == dpc = "done" /\ dep = "flir" /\ Len(frame) >= 12

\* C15 as stated: with minVal = maxVal in the header every decoded pixel is 0.
C15_FlatFrameAllZero ==
  (FlirDone /\ HeaderMin = HeaderMax) =>
    /\ decoded # <<>>
    /\ \A k \in 1..Len(Pixels) : Pixels[k] = 0

\* C15 amended: with minVal = maxVal in the header there is one pixel for each
\* sample, 0 if the sample is at most minVal and 255 if it is greater.
C15_FlatFrameFloorOrCeiling ==
  (FlirDone /\ HeaderMin = HeaderMax) =>
    /\ decoded # <<>>
    /\ Len(Pixels) = Samples
    /\ \A k \in 1..Samples :
         Pixels[k] = IF Raw(k) <= HeaderMin THEN 0 ELSE 255

\* A frame with minVal = maxVal, one sample below it and one above it.
C15_Witness ==
  /\ FlirDone
  /\ HeaderMin = HeaderMax
  /\ Samples = 2
  /\ Raw(1) < HeaderMin
  /\ Raw(2) > HeaderMin
  /\ Pixels = <<0, 255>>

\* num / den (den > 0) rounded to the nearest integer, a tie to the even one
RoundNearest(num, den) ==
  LET q == num \div den
      r == num - q * den
  IN IF 2 * r < den THEN q
     ELSE IF 2 * r > den THEN q + 1
     ELSE IF q % 2 = 0 THEN q ELSE q + 1

\* clamp(round((raw - minVal) * 255 / range), 0, 255), range = max(maxVal - minVal, 1)
RoundedPixel(raw) ==
  LET range == IF HeaderMax - HeaderMin >= 1 THEN HeaderMax - HeaderMin ELSE 1
      n == RoundNearest((raw - HeaderMin) * 255, range)
  IN IF n < 0 THEN 0 ELSE IF n > 255 THEN 255 ELSE n

\* C16 as stated: every decoded pixel is the quotient rounded to the nearest
\* integer, then clamped to 0..255.
C16_RoundedPixels ==
  FlirDone =>
    /\ decoded # <<>>
    /\ Len(Pixels) = Samples
    /\ \A k \in 1..Samples : Pixels[k] = RoundedPixel(Raw(k))

\* the complete 5-byte records of the buffer, by their number
Records == 1..(Len(frame) \div 5)
Byte(j, n) == frame[5 * (j - 1) + n + 1]

\* the records with quality (byte0 >> 2) > 0 and distance > 0
Qualifying ==
  {j \in Records : Byte(j, 0) \div 4 > 0 /\ Byte(j, 3) + 256 * Byte(j, 4) > 0}

\* the n-th of them in the buffer
NthQualifying(n) ==
  CHOOSE j \in Qualifying : Cardinality({i \in Qualifying : i < j}) = n - 1

\* the points of the message decoded from the buffer
Points == IF decoded = <<>> THEN <<>> ELSE decoded[1][2].points

\* C17: the points decoded from a buffer are those of its complete records with
\* quality > 0 and distance > 0, one each, in the order of the records; bytes
\* after the last complete record count for nothing, and there is a message
\* exactly if some record qualifies.
C17_QualifyingRecords ==
  (dpc = "done" /\ dep = "lidar") =>
    /\ Len(Points) = Cardinality(Qualifying)
    /\ (decoded = <<>>) <=> (Qualifying = {})
    /\ decoded # <<>> => decoded[1][2].type = "lidar"
    /\ \A n \in 1..Len(Points) :
         LET j == NthQualifying(n)
         IN /\ Points[n].q = Byte(j, 0) \div 4
            /\ Points[n] = LidarPoint(Byte(j, 0), Byte(j, 1), Byte(j, 2),
                                      Byte(j, 3), Byte(j, 4))

\* Two records and bytes left over; the first has quality 0 in a byte that is
\* not 0 and a distance, the second gives the one point.
C17_Witness ==
  /\ dpc = "done"
  /\ dep = "lidar"
  /\ Len(frame) \div 5 = 2
  /\ Len(frame) % 5 # 0
  /\ Byte(1, 0) = 3
  /\ Byte(1, 3) = 1
  /\ Qualifying = {2}
  /\ Len(Points) = 1

\* C18: a step of task t (a connection success or failure, a link loss, the end
\* of a sleep, any step that moves t or changes its backoff or connectivity)
\* leaves the backoff and the connectivity of every other task as they were,
\* and the control handle too unless t is the control task.
C18_PerEndpoint ==
  [][\A t \in Names :
       (pc'[t] # pc[t] \/ backoff'[t] # backoff[t]
          \/ phone_connected'[t] # phone_connected[t]) =>
         /\ \A u \in Names \ {t} :
              /\ backoff'[u] = backoff[u]
              /\ phone_connected'[u] = phone_connected[u]
         /\ t # "control" => control_ws' = control_ws]_vars

\* One running task has lost its link and slept, its backoff grown to 7.5,
\* while another running task is connected with its backoff at 5.
C18_Witness ==
  \E t \in lim.active, u \in lim.active :
    /\ t # u
    /\ ~phone_connected[t]
    /\ waits[t] = <<50000>>
    /\ backoff[t] = 75000
    /\ phone_connected[u]
    /\ backoff[u] = 50000
    /\ pc[u] = "recv"

\* C19: wherever the tasks are suspended, control_ws is set exactly if
\* phone_connected["control"] is True; so send_control goes on to send only
\* while the status shows control connected.
C19_HandleMatchesStatus ==
  /\ (control_ws # "None") <=> phone_connected["control"]
  /\ SendAttempted => phone_connected["control"]

\* The control link is being closed, handle and status both still set, and a
\* command that send_control tried to send on it was dropped.
C19_Witness ==
  /\ pc["control"] = "closing"
  /\ control_ws = "ws"
  /\ phone_connected["control"]
  /\ ~ctlOpen
  /\ nIn \in dropped
  /\ upstream # <<>>

\* C20 as stated: when no pass is in progress and no link is being closed, the
\* last status message that every registered client has received shows the
\* connectivity as it is. (Stated for the states in which no task has ended
\* and every browser that ever connected is still there, so that no pass was
\* cut short by a browser leaving.)
C20_LastStatusCurrent ==
  (/\ \A t \in Names : pc[t] \notin {"bcast", "closing", "dead"}
   /\ \A c \in Clients : hpc[c] \in {"none", "loop"} /\ ~closed[c]) =>
    \A c \in browser_clients : lastStatus[c] = StatusOf(phone_connected)
====
